---- MODULE Spec2Model ----
(***************************************************************************)
(* A model of templates/fhirabstractmodel-DISABLED.py: the base class of    *)
(* the FHIR element classes (FHIRAbstractModel) and its helper              *)
(* filter_empty_list_dict.                                                  *)
(*                                                                          *)
(* Python values are nodes of one record shape, so that any two of them     *)
(* can be compared:                                                         *)
(*   k = "null"    None                                                     *)
(*   k = "scalar"  a str/bool/number, v its text                            *)
(*   k = "list"    a list, items its elements                               *)
(*   k = "dict"    an (insertion ordered) dict, keys[i] -> items[i]         *)
(*   k = "record"  a FHIRAbstractModel instance of class v, its __dict__    *)
(*                 being keys[i] -> items[i]                                *)
(***************************************************************************)
EXTENDS Integers, Sequences, FiniteSets, TLC

VARIABLES
    ctorIn,     \* __init__: the class and the **data mapping of the call
    ctorOut,    \* __init__: what the call did
    tree,       \* filter_empty_list_dict: the value tree given
    pruned,     \* filter_empty_list_dict: the results of the applications so far
    self,       \* dict()/json(): the Record serialized
    serOut,     \* dict()/json(): the last call and its data
    preV,       \* cls.__pre_root_validators__
    postV,      \* cls.__post_root_validators__
    attrs,      \* the names setattr has bound on cls since its definition
    hookCall,   \* add_root_validator: the last call and its outcome
    cache,      \* has_resource_base's lru_cache: its entries, least recently used first
    since,      \* history: per watched class, the other classes classified since its last call
    classified, \* number of generated classes classified so far
    cacheCall   \* has_resource_base: the last call and its result

vars == <<ctorIn, ctorOut, tree, pruned, self, serOut, preV, postV, attrs,
          hookCall, cache, since, classified, cacheCall>>

ctorVars == <<ctorIn, ctorOut>>
pruneVars == <<tree, pruned>>
serVars == <<self, serOut>>
hookVars == <<preV, postV, attrs, hookCall>>
cacheVars == <<cache, since, classified, cacheCall>>

----------------------------------------------------------------------------
(* Values *)

Null == [k |-> "null", v |-> "", keys |-> <<>>, items |-> <<>>]

Scalar(x) == [k |-> "scalar", v |-> x, keys |-> <<>>, items |-> <<>>]

List(xs) == [k |-> "list", v |-> "", keys |-> <<>>, items |-> xs]

Dict(ks, xs) == [k |-> "dict", v |-> "", keys |-> ks, items |-> xs]

Record(c, ks, xs) == [k |-> "record", v |-> c, keys |-> ks, items |-> xs]

EmptyList == List(<<>>)

EmptyDict == Dict(<<>>, <<>>)

\* isinstance(x, (list, dict))
IsContainer(x) == x.k \in {"list", "dict"}

\* s without its element at position i (1-based): del s[i-1]
RemoveAt(s, i) == [j \in 1..(Len(s) - 1) |-> IF j < i THEN s[j] ELSE s[j + 1]]

\* d.get(key, None) on the keys/items of a dict or of an instance's __dict__
HasKey(x, key) == \E i \in 1..Len(x.keys) : x.keys[i] = key

Get(x, key) ==
    IF HasKey(x, key)
    THEN x.items[CHOOSE i \in 1..Len(x.keys) : x.keys[i] = key]
    ELSE Null

----------------------------------------------------------------------------
(* filter_empty_list_dict *)

RECURSIVE filter_empty_list_dict(_)
RECURSIVE FilterListLoop(_, _)
RECURSIVE FilterDictLoop(_, _, _)

\* A plausible slip: "if not result" in place of "if result is None", which
\* also deletes an element that is an empty string
FilterListLoop_DeletesFalsy(items, i) ==
    IF i > Len(items) THEN items
    ELSE IF items[i] = Null THEN FilterListLoop(items, i + 1)
    ELSE LET result == filter_empty_list_dict(items[i]) IN
         IF result = Null \/ result = Scalar("")
         THEN FilterListLoop(RemoveAt(items, i), i + 1)
         ELSE FilterListLoop([items EXCEPT ![i] = result], i + 1)

\* for idx, item in enumerate(items): ... del items[idx].  The list iterator
\* keeps its own index: after a deletion the element that moved into position
\* idx is not visited, the loop goes on at idx + 1 of the shortened list.
\* i is 1-based here.
FilterListLoop(items, i) ==
    IF i > Len(items) THEN items
    ELSE IF items[i] = Null THEN FilterListLoop(items, i + 1)
    ELSE LET result == filter_empty_list_dict(items[i]) IN
         IF result = Null
         THEN FilterListLoop(RemoveAt(items, i), i + 1)
         ELSE FilterListLoop([items EXCEPT ![i] = result], i + 1)

\* for key in tuple(items.keys()): ... del items[key].  The keys are copied
\* first: todo is that copy, d the dict as deleted from so far.
FilterDictLoop(d, todo, n) ==
    IF n > Len(todo) THEN d
    ELSE LET key == todo[n]
             pos == CHOOSE i \in 1..Len(d.keys) : d.keys[i] = key
             item == d.items[pos]
         IN IF item = Null THEN FilterDictLoop(d, todo, n + 1)
            ELSE LET result == filter_empty_list_dict(item) IN
                 IF result = Null
                 THEN FilterDictLoop(
                          Dict(RemoveAt(d.keys, pos), RemoveAt(d.items, pos)),
                          todo, n + 1)
                 ELSE FilterDictLoop(
                          Dict(d.keys, [d.items EXCEPT ![pos] = result]),
                          todo, n + 1)

filter_empty_list_dict(items) ==
    IF ~IsContainer(items) THEN items
    ELSE IF Len(items.items) = 0 THEN Null
    ELSE LET after == IF items.k = "list"
                      THEN List(FilterListLoop(items.items, 1))
                      ELSE FilterDictLoop(items, items.keys, 1)
         IN IF Len(after.items) = 0 THEN Null ELSE after

----------------------------------------------------------------------------
(* Value trees given to filter_empty_list_dict *)

MaxLen == 3

MaxApplications == 2

\* All sequences over S of length at most n
SeqsUpTo(S, n) == UNION {[1..m -> S] : m \in 0..n}

\* The dicts whose keys are taken, in order, from "x", "y" and values from S
DictsOver(S) ==
    {EmptyDict}
        \cup {Dict(<<key>>, <<x>>) : key \in {"x", "y"}, x \in S}
        \cup {Dict(<<"x", "y">>, <<x, y>>) : x \in S, y \in S}

Leaves == {Null, Scalar("a"), Scalar("b")}

Level1 ==
    Leaves \cup {List(s) : s \in SeqsUpTo(Leaves, MaxLen)} \cup DictsOver(Leaves)

Inner1 ==
    {Null, Scalar("a"), EmptyList, EmptyDict, List(<<Scalar("a")>>),
     List(<<Null>>), Dict(<<"x">>, <<EmptyList>>), Dict(<<"x">>, <<Scalar("b")>>)}

Level2 == {List(s) : s \in SeqsUpTo(Inner1, MaxLen)} \cup DictsOver(Inner1)

Inner2 ==
    {Scalar("a"), EmptyList, List(<<EmptyList>>), List(<<EmptyList, EmptyList>>),
     List(<<EmptyList, EmptyDict, Scalar("b")>>), Dict(<<"x">>, <<List(<<EmptyDict>>)>>)}

Level3 == {List(s) : s \in SeqsUpTo(Inner2, 2)} \cup DictsOver(Inner2)

Trees == Level1 \cup Level2 \cup Level3

PruneIdle == tree = Null /\ pruned = <<>>

InitPrune == tree \in Trees /\ pruned = <<>>

\* data = filter_empty_list_dict(data), applied to the result of the
\* application before it
Prune ==
    /\ Len(pruned) < MaxApplications
    /\ pruned' = Append(pruned, filter_empty_list_dict(
                     IF pruned = <<>> THEN tree ELSE pruned[Len(pruned)]))
    /\ UNCHANGED tree

----------------------------------------------------------------------------
(* The Record classes: the generated classes the base class is used with.   *)
(* Each declares its type-tag (the default of its resource_type field), its  *)
(* element fields in canonical order and, for a primitive element, the       *)
(* paired extension field.                                                   *)

\* class FHIRAbstractModel(BaseModel, abc.ABC): the end of every class's MRO
FrameworkMro == <<"FHIRAbstractModel", "BaseModel", "Representation", "ABC", "object">>

\* inspect.getmro(cls), as class names
Mro(c) ==
    CASE c = "Patient" -> <<"Patient", "DomainResource", "Resource">> \o FrameworkMro
      [] c = "DomainResource" -> <<"DomainResource", "Resource">> \o FrameworkMro
      [] c = "Resource" -> <<"Resource">> \o FrameworkMro
      [] c = "HumanName" -> <<"HumanName", "Element">> \o FrameworkMro
      [] c = "Element" -> <<"Element">> \o FrameworkMro
      [] c = "FHIRPrimitiveExtension" -> <<"FHIRPrimitiveExtension">> \o FrameworkMro
      [] OTHER -> <<c>> \o FrameworkMro

\* cls.__fields__["resource_type"].default
ResourceTypeDefault(c) == c

Elem(alias, key, primitive, extKey, extAlias) ==
    [alias |-> alias, key |-> key, primitive |-> primitive,
     extKey |-> extKey, extAlias |-> extAlias]

\* The element fields of a class, in the order of cls.elements_sequence()
Elements(c) ==
    CASE c = "Patient" ->
           <<Elem("active", "active", TRUE, "active__ext", "_active"),
             Elem("contained", "contained", FALSE, "", ""),
             Elem("name", "name", FALSE, "", "")>>
      [] c = "HumanName" ->
           <<Elem("family", "family", TRUE, "family__ext", "_family"),
             Elem("given", "given", TRUE, "given__ext", "_given")>>
      [] c = "FHIRPrimitiveExtension" ->
           <<Elem("id", "id", TRUE, "id__ext", "_id")>>
      [] OTHER -> <<>>

\* The names of cls.__fields__
FieldNames(c) ==
    {"resource_type", "fhir_comments"}
        \cup {Elements(c)[i].key : i \in 1..Len(Elements(c))}
        \cup {Elements(c)[i].extKey : i \in {j \in 1..Len(Elements(c)) : Elements(c)[j].primitive}}

----------------------------------------------------------------------------
(* FHIRAbstractModel.__init__ *)

\* data.pop(key, None): the mapping left
Pop(d, key) ==
    IF HasKey(d, key)
    THEN LET pos == CHOOSE i \in 1..Len(d.keys) : d.keys[i] = key
         IN Dict(RemoveAt(d.keys, pos), RemoveAt(d.items, pos))
    ELSE d

NoCtorCall ==
    [status |-> "none", loc |-> "", expected |-> "", given |-> "", cls |-> "",
     baseCalled |-> FALSE, baseData |-> Null]

\* The outcome of cls(**data)
Construct(c, data) ==
    LET first == Get(data, "resource_type")
        d1 == Pop(data, "resource_type")
        camel == HasKey(d1, "resourceType") /\ "resourceType" \notin FieldNames(c)
        resource_type == IF camel THEN Get(d1, "resourceType") ELSE first
        d2 == IF camel THEN Pop(d1, "resourceType") ELSE d1
    IN IF resource_type /= Null /\ resource_type /= Scalar(ResourceTypeDefault(c))
       THEN [status |-> "ValidationError", loc |-> "resource_type",
             expected |-> ResourceTypeDefault(c), given |-> resource_type.v,
             cls |-> c, baseCalled |-> FALSE, baseData |-> Null]
       ELSE [status |-> "constructed", loc |-> "", expected |-> "", given |-> "",
             cls |-> c, baseCalled |-> TRUE, baseData |-> d2]

CtorClasses == {"Patient", "HumanName"}

TagValues == {"Patient", "patient", "HumanName", "Observation"}

\* The **data of a call: each tag spelling absent, None or a string, and
\* possibly one more field
OptionalEntry(key, values) ==
    {<<>>} \cup {<<[key |-> key, val |-> x]>> : x \in values}

CtorData ==
    LET tags == {Null} \cup {Scalar(t) : t \in TagValues}
        entries ==
            {a \o b \o c : a \in OptionalEntry("resource_type", tags),
                           b \in OptionalEntry("resourceType", tags),
                           c \in OptionalEntry("active", {Scalar("true")})}
    IN {Dict([i \in 1..Len(e) |-> e[i].key], [i \in 1..Len(e) |-> e[i].val]) : e \in entries}

CtorIdle == ctorIn = [cls |-> "", data |-> Null] /\ ctorOut = NoCtorCall

InitCtor ==
    /\ ctorIn \in [cls : CtorClasses, data : CtorData]
    /\ ctorOut = NoCtorCall

\* __init__(**data)
Init__ ==
    /\ ctorOut.status = "none"
    /\ ctorOut' = Construct(ctorIn.cls, ctorIn.data)
    /\ UNCHANGED ctorIn

----------------------------------------------------------------------------
(* has_resource_base and its lru_cache *)

\* A class as a cache key: a declared class by its name, or the n-th of the
\* other generated classes
ClassKey(name) == [name |-> name, n |-> 0]

Generated(n) == [name |-> "Generated", n |-> n]

\* The generated classes are resources (odd n) and embedded elements (even n)
MroOfKey(key) ==
    IF key.n = 0 THEN Mro(key.name)
    ELSE IF key.n % 2 = 1
         THEN <<"Generated", "DomainResource", "Resource">> \o FrameworkMro
         ELSE <<"Generated", "BackboneElement", "Element">> \o FrameworkMro

\* The number of framework ancestors at the end of the MRO that are not walked
\* ([:-4]: BaseModel, Representation, ABC, object)
SkippedAncestors == 4

\* A plausible slip: the slice [4:] in place of [:-4], which skips the first
\* four classes of the MRO
HasResourceBaseWalk_SkipsFirst(key) ==
    LET mro == MroOfKey(key)
    IN \E i \in 5..Len(mro) : mro[i] = "Resource"

\* The body of has_resource_base: the walk of inspect.getmro(cls)[:-4]
HasResourceBaseWalk(key) ==
    LET mro == MroOfKey(key)
    IN \E i \in 1..(Len(mro) - SkippedAncestors) : mro[i] = "Resource"

\* lru_cache(maxsize=1024, typed=True)
maxsize == 1024

InCache(c, key) == \E i \in 1..Len(c) : c[i].cls = key

\* A plausible slip: a hit returns the cached result without making the
\* entry the most recently used one
LruCall_HitKeepsPlace(c, key) ==
    IF InCache(c, key)
    THEN LET pos == CHOOSE i \in 1..Len(c) : c[i].cls = key
         IN [cache |-> c, result |-> c[pos].result, hit |-> TRUE]
    ELSE LET result ==
                 \E i \in 1..(Len(MroOfKey(key)) - 4) : MroOfKey(key)[i] = "Resource"
             entry == [cls |-> key, result |-> result]
         IN [cache |-> IF Len(c) >= 1024
                       THEN Append(Tail(c), entry)
                       ELSE Append(c, entry),
             result |-> result, hit |-> FALSE]

\* One call through the lru_cache wrapper: a hit moves the entry to the most
\* recently used end and returns its result; a miss runs the function and
\* adds the entry, in place of the least recently used one when the cache is
\* full.
LruCall(c, key) ==
    IF InCache(c, key)
    THEN LET pos == CHOOSE i \in 1..Len(c) : c[i].cls = key
         IN [cache |-> Append(RemoveAt(c, pos), c[pos]),
             result |-> c[pos].result, hit |-> TRUE]
    ELSE LET result == HasResourceBaseWalk(key)
             entry == [cls |-> key, result |-> result]
         IN [cache |-> IF Len(c) >= maxsize
                       THEN Append(Tail(c), entry)
                       ELSE Append(c, entry),
             result |-> result, hit |-> FALSE]

\* cls.has_resource_base(): the cache after the call, and what it returned
has_resource_base(c, key) == LruCall(c, key)

\* The cache after the calls for keys[lo], ..., keys[hi] in this order.  The
\* range is halved and c is looked at before the calls are made, which keeps
\* the evaluation shallow; a cache never holds more than maxsize entries.
RECURSIVE LruCallsRange(_, _, _, _)
LruCallsRange(c, keys, lo, hi) ==
    IF Len(c) > maxsize \/ lo > hi THEN c
    ELSE IF lo = hi THEN has_resource_base(c, keys[lo]).cache
    ELSE LET mid == (lo + hi) \div 2
         IN LruCallsRange(LruCallsRange(c, keys, lo, mid), keys, mid + 1, hi)

\* The cache after the calls for keys[1], keys[2], ... in this order
LruCalls(c, keys) == LruCallsRange(c, keys, 1, Len(keys))

----------------------------------------------------------------------------
(* dict(), _fhir_iter, _fhir_get_value, json() *)

FHIR_COMMENTS_FIELD_NAME == "fhir_comments"

Pair(key, val) == [key |-> key, val |-> val]

\* OrderedDict(pairs): a key yielded again keeps its first position and
\* takes the later value
RECURSIVE OrderedDictOf(_, _, _)
OrderedDictOf(pairs, i, d) ==
    IF i > Len(pairs) THEN d
    ELSE IF HasKey(d, pairs[i].key)
         THEN LET pos == CHOOSE j \in 1..Len(d.keys) : d.keys[j] = pairs[i].key
              IN OrderedDictOf(pairs, i + 1,
                               Dict(d.keys, [d.items EXCEPT ![pos] = pairs[i].val]))
         ELSE OrderedDictOf(pairs, i + 1,
                            Dict(Append(d.keys, pairs[i].key),
                                 Append(d.items, pairs[i].val)))

\* What self.__class__.has_resource_base() returns in _fhir_iter: the cached
\* result is the result of the walk (the cache itself is updated by the
\* actions DictCall and JsonCall)
ResourceBaseOf(rec) == HasResourceBaseWalk(ClassKey(rec.v))

RECURSIVE fhir_dict(_, _, _, _)
RECURSIVE fhir_iter(_, _, _, _)
RECURSIVE ElementPairs(_, _, _, _, _)
RECURSIVE fhir_get_value(_, _, _, _)

\* A plausible slip: the empty list or dict becomes None whatever exclude_none
CollapseEmpty_Always(value, exclude_none) ==
    IF IsContainer(value) /\ Len(value.items) = 0
    THEN Null
    ELSE value

\* The tail of _fhir_get_value: an empty list or dict becomes None when
\* exclude_none is True
CollapseEmpty(value, exclude_none) ==
    IF IsContainer(value) /\ exclude_none /\ Len(value.items) = 0
    THEN Null
    ELSE value

\* _fhir_get_value (no custom root types, no Enum values among the classes)
fhir_get_value(v, by_alias, exclude_none, exclude_comments) ==
    LET value ==
            CASE v.k = "record" -> fhir_dict(v, by_alias, exclude_none, exclude_comments)
              [] v.k = "dict" ->
                   Dict(v.keys,
                        [i \in 1..Len(v.items) |->
                            fhir_get_value(v.items[i], by_alias, exclude_none,
                                           exclude_comments)])
              [] v.k = "list" ->
                   List([i \in 1..Len(v.items) |->
                            fhir_get_value(v.items[i], by_alias, exclude_none,
                                           exclude_comments)])
              [] OTHER -> v
    IN CollapseEmpty(value, exclude_none)

\* if v is not None or (exclude_none is False and v is None): yield dict_key, v
EmitsField(v, exclude_none) == v /= Null \/ (exclude_none = FALSE /\ v = Null)

\* if ext_val is not None and len(ext_val) > 0: yield dict_key_, ext_val
EmitsExt(ext_val) == ext_val /= Null /\ Len(ext_val.items) > 0

\* if comments is not None and not exclude_comments: yield ...
EmitsComments(comments, exclude_comments) == comments /= Null /\ ~exclude_comments

\* The pairs _fhir_iter yields for the elements from the i-th on
ElementPairs(rec, i, by_alias, exclude_none, exclude_comments) ==
    LET elems == Elements(rec.v) IN
    IF i > Len(elems) THEN <<>>
    ELSE LET e == elems[i]
             raw == Get(rec, e.key)
             v == IF raw /= Null
                  THEN fhir_get_value(raw, by_alias, exclude_none, exclude_comments)
                  ELSE Null
             dict_key == IF by_alias THEN e.alias ELSE e.key
             main == IF EmitsField(v, exclude_none) THEN <<Pair(dict_key, v)>> ELSE <<>>
             ext_raw == IF e.primitive THEN Get(rec, e.extKey) ELSE Null
             ext_val == IF ext_raw /= Null
                        THEN fhir_get_value(ext_raw, by_alias, exclude_none,
                                            exclude_comments)
                        ELSE Null
             ext == IF e.primitive /\ ext_raw /= Null /\ EmitsExt(ext_val)
                    THEN <<Pair(IF by_alias THEN e.extAlias ELSE e.extKey, ext_val)>>
                    ELSE <<>>
         IN main \o ext
                 \o ElementPairs(rec, i + 1, by_alias, exclude_none, exclude_comments)

\* A plausible slip: the comments are yielded before the elements
fhir_iter_CommentsFirst(rec, by_alias, exclude_none, exclude_comments) ==
    LET head == IF ResourceBaseOf(rec)
                THEN <<Pair("resourceType", Get(rec, "resource_type"))>>
                ELSE <<>>
        comments == Get(rec, FHIR_COMMENTS_FIELD_NAME)
        tail == IF EmitsComments(comments, exclude_comments)
                THEN <<Pair(FHIR_COMMENTS_FIELD_NAME, comments)>>
                ELSE <<>>
    IN head \o tail \o ElementPairs(rec, 1, by_alias, exclude_none, exclude_comments)

\* _fhir_iter: the (key, value) pairs in the order they are yielded
fhir_iter(rec, by_alias, exclude_none, exclude_comments) ==
    LET head == IF ResourceBaseOf(rec)
                THEN <<Pair("resourceType", Get(rec, "resource_type"))>>
                ELSE <<>>
        comments == Get(rec, FHIR_COMMENTS_FIELD_NAME)
        tail == IF EmitsComments(comments, exclude_comments)
                THEN <<Pair(FHIR_COMMENTS_FIELD_NAME, comments)>>
                ELSE <<>>
    IN head \o ElementPairs(rec, 1, by_alias, exclude_none, exclude_comments) \o tail

\* dict(by_alias, exclude_none, exclude_comments)
fhir_dict(rec, by_alias, exclude_none, exclude_comments) ==
    OrderedDictOf(fhir_iter(rec, by_alias, exclude_none, exclude_comments), 1, EmptyDict)

\* What json() passes on to self.dict(): by_alias and exclude_none, and
\* include/exclude/exclude_unset/exclude_defaults, which dict() takes as
\* **pydantic_extra and ignores.  exclude_comments is not among them, so
\* dict() runs with its default, False.
JsonDictExcludeComments(exclude_comments) == FALSE

\* The data json() hands to json_dumps
JsonData(rec, by_alias, exclude_none, exclude_comments) ==
    LET data == fhir_dict(rec, by_alias, exclude_none,
                          JsonDictExcludeComments(exclude_comments))
    IN IF exclude_comments THEN filter_empty_list_dict(data) ELSE data

\* filter_empty_list_dict deletes in place: the object x as the call leaves
\* it (what the call returns is this object, or None when it is empty)
PrunedInPlace(x) ==
    IF ~IsContainer(x) \/ Len(x.items) = 0 THEN x
    ELSE IF x.k = "list" THEN List(FilterListLoop(x.items, 1))
    ELSE FilterDictLoop(x, x.keys, 1)

\* The objects dict() shares with the Record: _fhir_get_value builds a new
\* dict or list for every Record, dict and sequence it converts, while
\* _fhir_iter yields the value of fhir_comments itself.  RecordAfterPrune is
\* raw, a value of the Record, as filter_empty_list_dict(out) leaves it, out
\* being what dict() made of raw: the comments of every Record whose mapping
\* the pruning visits are pruned in place.
RECURSIVE RecordAfterPrune(_, _)
RECURSIVE ElementsAfterPrune(_, _, _, _)
RECURSIVE ListAfterPrune(_, _, _, _)

\* The Record rec after the pruning went through the entries of its mapping
\* out that come from the elements from the i-th on
ElementsAfterPrune(rec, out, by_alias, i) ==
    LET elems == Elements(rec.v) IN
    IF i > Len(elems) THEN rec
    ELSE LET e == elems[i]
             key == IF by_alias THEN e.alias ELSE e.key
             extKey == IF by_alias THEN e.extAlias ELSE e.extKey
             pos == CHOOSE j \in 1..Len(rec.keys) : rec.keys[j] = e.key
             extPos == CHOOSE j \in 1..Len(rec.keys) : rec.keys[j] = e.extKey
             r1 == IF HasKey(out, key) /\ HasKey(rec, e.key)
                   THEN [rec EXCEPT !.items[pos] =
                            RecordAfterPrune(rec.items[pos], <<Get(out, key), by_alias>>)]
                   ELSE rec
             r2 == IF e.primitive /\ HasKey(out, extKey) /\ HasKey(rec, e.extKey)
                   THEN [r1 EXCEPT !.items[extPos] =
                            RecordAfterPrune(r1.items[extPos],
                                             <<Get(out, extKey), by_alias>>)]
                   ELSE r1
         IN ElementsAfterPrune(r2, out, by_alias, i + 1)

\* The list loop over outs, the converted elements still in the list, of
\* which idxs are the positions in raws: the element that follows a deleted
\* one is not visited
ListAfterPrune(raws, outs, idxs, st) ==
    LET i == st.i
        by_alias == st.by_alias
    IN IF i > Len(outs) THEN raws
       ELSE IF outs[i] = Null
       THEN ListAfterPrune(raws, outs, idxs, [st EXCEPT !.i = i + 1])
       ELSE LET k == idxs[i]
                raws2 == [raws EXCEPT ![k] = RecordAfterPrune(raws[k], <<outs[i], by_alias>>)]
            IN IF filter_empty_list_dict(outs[i]) = Null
               THEN ListAfterPrune(raws2, RemoveAt(outs, i), RemoveAt(idxs, i),
                                   [st EXCEPT !.i = i + 1])
               ELSE ListAfterPrune(raws2, outs, idxs, [st EXCEPT !.i = i + 1])

RecordAfterPrune(raw, conv) ==
    LET out == conv[1]
        by_alias == conv[2]
    IN CASE raw.k = "record" /\ out.k = "dict" /\ Len(out.keys) > 0 ->
              LET r == ElementsAfterPrune(raw, out, by_alias, 1)
                  pos == CHOOSE j \in 1..Len(r.keys) : r.keys[j] = FHIR_COMMENTS_FIELD_NAME
              IN IF HasKey(out, FHIR_COMMENTS_FIELD_NAME)
                 THEN [r EXCEPT !.items[pos] = PrunedInPlace(r.items[pos])]
                 ELSE r
         [] raw.k = "list" /\ out.k = "list" /\ Len(out.items) > 0 ->
              List(ListAfterPrune(raw.items, out.items,
                                  [j \in 1..Len(out.items) |-> j],
                                  [i |-> 1, by_alias |-> by_alias]))
         [] OTHER -> raw

\* self after json(): the pruning pass runs when exclude_comments is set
SelfAfterJson(rec, by_alias, exclude_none, exclude_comments) ==
    IF exclude_comments
    THEN RecordAfterPrune(rec, <<fhir_dict(rec, by_alias, exclude_none,
                                           JsonDictExcludeComments(exclude_comments)),
                                 by_alias>>)
    ELSE rec

\* The classes whose has_resource_base() a serialization of v calls, in call
\* order: dict() of a Record asks for its own class, then converts the
\* element values and extension values that are not None
RECURSIVE ClassesVisited(_)
RECURSIVE VisitedIn(_, _)
RECURSIVE VisitedElements(_, _)

VisitedIn(xs, i) ==
    IF i > Len(xs) THEN <<>> ELSE ClassesVisited(xs[i]) \o VisitedIn(xs, i + 1)

VisitedElements(rec, i) ==
    LET elems == Elements(rec.v) IN
    IF i > Len(elems) THEN <<>>
    ELSE ClassesVisited(Get(rec, elems[i].key))
             \o (IF elems[i].primitive
                 THEN ClassesVisited(Get(rec, elems[i].extKey))
                 ELSE <<>>)
             \o VisitedElements(rec, i + 1)

ClassesVisited(v) ==
    CASE v.k = "record" -> <<ClassKey(v.v)>> \o VisitedElements(v, 1)
      [] v.k \in {"list", "dict"} -> VisitedIn(v.items, 1)
      [] OTHER -> <<>>

----------------------------------------------------------------------------
(* The Records serialized *)

MaxNames == 2

PrimitiveExtension(id, comments) ==
    Record("FHIRPrimitiveExtension",
           <<"resource_type", "id", "id__ext", "fhir_comments">>,
           <<Scalar("FHIRPrimitiveExtension"), id, Null, comments>>)

HumanName(family, family__ext, given, comments) ==
    Record("HumanName",
           <<"resource_type", "family", "family__ext", "given", "given__ext",
             "fhir_comments">>,
           <<Scalar("HumanName"), family, family__ext, given, Null, comments>>)

Patient(active, active__ext, contained, name, comments) ==
    Record("Patient",
           <<"resource_type", "active", "active__ext", "contained", "name",
             "fhir_comments">>,
           <<Scalar("Patient"), active, active__ext, contained, name, comments>>)

HumanNames ==
    {HumanName(f, e, g, c) :
        f \in {Null, Scalar("Smith")},
        e \in {Null, PrimitiveExtension(Null, Null), PrimitiveExtension(Scalar("x"), Null),
               PrimitiveExtension(Null, Scalar("c"))},
        g \in {Null, EmptyList, List(<<Scalar("A"), Scalar("B")>>)},
        c \in {Null, Scalar("c"), EmptyList, List(<<Scalar(""), Scalar("c")>>)}}

\* The names nested in a Patient: without any value, with comments only, with
\* a value and an extension that holds comments only
NestedNames ==
    {HumanName(Null, Null, Null, Null),
     HumanName(Null, Null, EmptyList, Scalar("c")),
     HumanName(Scalar("Smith"), PrimitiveExtension(Null, Scalar("c")), Null, Null)}

\* The resource contained in a Patient
ContainedPatient ==
    Patient(Null, Null, Null,
            List(<<HumanName(Null, Null, Null, List(<<Scalar(""), Scalar("c")>>))>>),
            Scalar("c"))

Patients ==
    {Patient(a, Null, ct, n, c) :
        a \in {Null, Scalar("true")},
        ct \in {Null, List(<<ContainedPatient>>)},
        n \in {Null} \cup {List(s) : s \in SeqsUpTo(NestedNames, MaxNames)},
        c \in {Null, Scalar("c")}}

Records == HumanNames \cup Patients

NoSerCall ==
    [op |-> "none", by_alias |-> FALSE, exclude_none |-> FALSE,
     exclude_comments |-> FALSE, exclude |-> "", status |-> "", data |-> Null]

SerIdle == self = Null /\ serOut = NoSerCall

\* The exclude argument of json(), by its type: None (a set and a dict are
\* treated alike), or a list, of which the call is made with the other
\* flags at True
JsonArgs ==
    [by_alias : BOOLEAN, exclude_none : BOOLEAN, exclude_comments : BOOLEAN,
     exclude : {"None"}]
        \cup {[by_alias |-> TRUE, exclude_none |-> TRUE, exclude_comments |-> TRUE,
                exclude |-> "list"]}

\* self.dict(by_alias=..., exclude_none=..., exclude_comments=...)
DictCall ==
    \E by_alias \in BOOLEAN, exclude_none \in BOOLEAN, exclude_comments \in BOOLEAN :
        /\ serOut' = [op |-> "dict", by_alias |-> by_alias,
                      exclude_none |-> exclude_none,
                      exclude_comments |-> exclude_comments, exclude |-> "None",
                      status |-> "ok",
                      data |-> fhir_dict(self, by_alias, exclude_none, exclude_comments)]
        /\ cache' = LruCalls(cache, ClassesVisited(self))
        /\ UNCHANGED self

\* self.json(by_alias=..., exclude_none=..., exclude_comments=..., exclude=...)
\* up to the call of json_dumps; by_alias and exclude_none are the values
\* after None was replaced by True
JsonCall ==
    \E a \in JsonArgs :
        /\ IF a.exclude_comments /\ a.exclude \notin {"None", "set", "dict"}
           THEN /\ serOut' = [op |-> "json", by_alias |-> a.by_alias,
                              exclude_none |-> a.exclude_none,
                              exclude_comments |-> a.exclude_comments,
                              exclude |-> a.exclude,
                              status |-> "NotImplementedError", data |-> Null]
                /\ UNCHANGED <<cache, self>>
           ELSE /\ serOut' = [op |-> "json", by_alias |-> a.by_alias,
                              exclude_none |-> a.exclude_none,
                              exclude_comments |-> a.exclude_comments,
                              exclude |-> a.exclude, status |-> "ok",
                              data |-> JsonData(self, a.by_alias, a.exclude_none,
                                                a.exclude_comments)]
                /\ cache' = LruCalls(cache, ClassesVisited(self))
                /\ self' = SelfAfterJson(self, a.by_alias, a.exclude_none,
                                         a.exclude_comments)

----------------------------------------------------------------------------
(* add_root_validator *)

\* The class the validators are registered on
HookClass == "Patient"

\* The names in cls_.__dict__ of the classes of cls.mro() as they are after
\* class definition (pydantic keeps declared fields out of the class __dict__)
DefinedNames(c) ==
    CASE c = "Patient" -> {"elements_sequence", "validate_one_of_many", "validate_reference"}
      [] c = "FHIRAbstractModel" -> {"dict", "json", "add_root_validator"}
      [] c = "BaseModel" -> {"copy"}
      [] OTHER -> {}

\* any([func_name in cls_.__dict__ for cls_ in cls.mro()]): bound holds the
\* names setattr has added to cls itself
NameInMro(c, bound, func_name) ==
    \/ func_name \in bound
    \/ \E i \in 1..Len(Mro(c)) : func_name \in DefinedNames(Mro(c)[i])

\* list.insert(index, x): a negative index counts from the end, and an index
\* beyond either end inserts at that end
ListInsert(s, index, x) ==
    LET n == Len(s)
        fromStart == IF index < 0 THEN index + n ELSE index
        at == IF fromStart < 0 THEN 0 ELSE IF fromStart > n THEN n ELSE fromStart
    IN SubSeq(s, 1, at) \o <<x>> \o SubSeq(s, at + 1, n)

\* A plausible slip: every index goes to list.insert, -1 included
InsertHook_NoAppendCase(s, index, x) == ListInsert(s, index, x)

\* if index == -1: hooks.append(x) else: hooks.insert(index, x)
InsertHook(s, index, x) ==
    IF index = -1 THEN Append(s, x) ELSE ListInsert(s, index, x)

\* A plausible slip: the hook is put into its list before the signature is
\* checked
AddRootValidator_LateSignatureCheck(c, pres, posts, bound, f, pre, skip_on_failure, index) ==
    IF NameInMro(c, bound, f.name) \/ f.name \in FieldNames(c)
    THEN [result |-> "ConfigError", pre |-> pres, post |-> posts, attrs |-> bound]
    ELSE LET pres2 == IF pre THEN InsertHook(pres, index, f.name) ELSE pres
             posts2 == IF pre THEN posts
                       ELSE InsertHook(posts, index,
                                       [skip_on_failure |-> skip_on_failure,
                                        func |-> f.name])
         IN IF Len(f.params) /= 2 \/ f.params[1] /= "cls"
            THEN [result |-> "ConfigError", pre |-> pres2, post |-> posts2,
                  attrs |-> bound]
            ELSE [result |-> "ok", pre |-> pres2, post |-> posts2,
                  attrs |-> bound \cup {f.name}]

\* cls.add_root_validator(f, pre=..., skip_on_failure=..., index=...) with
\* allow_reuse at its default: the outcome and the class's hook lists and
\* added attributes after the call
AddRootValidator(c, pres, posts, bound, f, pre, skip_on_failure, index) ==
    IF NameInMro(c, bound, f.name)
    THEN [result |-> "ConfigError", pre |-> pres, post |-> posts, attrs |-> bound]
    ELSE IF f.name \in FieldNames(c)
    THEN [result |-> "ConfigError", pre |-> pres, post |-> posts, attrs |-> bound]
    ELSE IF Len(f.params) /= 2
    THEN [result |-> "ConfigError", pre |-> pres, post |-> posts, attrs |-> bound]
    ELSE IF f.params[1] /= "cls"
    THEN [result |-> "ConfigError", pre |-> pres, post |-> posts, attrs |-> bound]
    ELSE [result |-> "ok",
          pre |-> IF pre THEN InsertHook(pres, index, f.name) ELSE pres,
          post |-> IF pre THEN posts
                   ELSE InsertHook(posts, index,
                                   [skip_on_failure |-> skip_on_failure,
                                    func |-> f.name]),
          attrs |-> bound \cup {f.name}]

Function(name, params) == [name |-> name, params |-> params]

\* The functions registered: well-formed ones, and ones that collide with a
\* field, with a method of an ancestor, or have a wrong signature
GoodValidators ==
    {Function("check_a", <<"cls", "values">>), Function("check_b", <<"cls", "values">>)}

BadValidators ==
    {Function("active", <<"cls", "values">>),
     Function("json", <<"cls", "values">>),
     Function("validate_reference", <<"cls", "values">>),
     Function("one_param", <<"cls">>),
     Function("three_params", <<"cls", "values", "extra">>),
     Function("not_cls", <<"self", "values">>)}

Indexes == {-1, 0, 1, -2, 5}

\* The calls made: the well-formed functions with every flag and index, the
\* others as a pre-validator appended and as a post-validator put first
HookCalls ==
    [func : GoodValidators, pre : {TRUE}, skip_on_failure : {FALSE}, index : Indexes]
        \cup [func : GoodValidators, pre : {FALSE}, skip_on_failure : BOOLEAN,
               index : Indexes]
        \cup [func : BadValidators, pre : {TRUE}, skip_on_failure : {FALSE}, index : {-1}]
        \cup [func : BadValidators, pre : {FALSE}, skip_on_failure : {TRUE}, index : {0}]

NoHookCall ==
    [result |-> "none", func |-> Function("", <<>>), pre |-> FALSE,
     skip_on_failure |-> FALSE, index |-> -1]

HookIdle == preV = <<>> /\ postV = <<>> /\ attrs = {} /\ hookCall = NoHookCall

\* The class as defined: with the root validators its definition declares
InitHooks ==
    /\ preV = <<"validate_one_of_many">>
    /\ postV = <<[skip_on_failure |-> FALSE, func |-> "validate_reference"]>>
    /\ attrs = {}
    /\ hookCall = NoHookCall

add_root_validator ==
    \E a \in HookCalls :
        LET out == AddRootValidator(HookClass, preV, postV, attrs, a.func, a.pre,
                                    a.skip_on_failure, a.index)
        IN /\ preV' = out.pre
           /\ postV' = out.post
           /\ attrs' = out.attrs
           /\ hookCall' = [result |-> out.result, func |-> a.func, pre |-> a.pre,
                           skip_on_failure |-> a.skip_on_failure, index |-> a.index]

----------------------------------------------------------------------------
(* Classifying classes: cls.has_resource_base() *)

\* The classes whose cache entries are followed
Watched == {ClassKey("Patient"), ClassKey("HumanName")}

\* The generated classes are classified Batch at a time, in their order
Batch == 256

MaxGenerated == 1280

NoCacheCall == [op |-> "none", key |-> ClassKey(""), result |-> FALSE, hit |-> FALSE]

NotCalled == [called |-> FALSE, generated |-> 0, named |-> {}]

CacheIdle ==
    /\ cache = <<>>
    /\ since = [w \in Watched |-> NotCalled]
    /\ classified = 0
    /\ cacheCall = NoCacheCall

InitCache == CacheIdle

\* The number of distinct other classes classified since w's last call
OthersSince(w) == since[w].generated + Cardinality(since[w].named)

\* One call for a watched class
Classify ==
    \E w \in Watched :
        LET out == has_resource_base(cache, w) IN
        /\ cache' = out.cache
        /\ cacheCall' = [op |-> "has_resource_base", key |-> w,
                         result |-> out.result, hit |-> out.hit]
        /\ since' = [x \in Watched |->
                        IF x = w THEN [called |-> TRUE, generated |-> 0, named |-> {}]
                        ELSE [since[x] EXCEPT !.named = @ \cup {w}]]
        /\ UNCHANGED classified

\* One call for each of the next Batch generated classes
ClassifyGenerated ==
    /\ classified + Batch <= MaxGenerated
    /\ LET keys == [i \in 1..Batch |-> Generated(classified + i)]
           before == LruCalls(cache, SubSeq(keys, 1, Batch - 1))
           out == has_resource_base(before, keys[Batch])
       IN /\ cache' = out.cache
          /\ cacheCall' = [op |-> "has_resource_base", key |-> keys[Batch],
                           result |-> out.result, hit |-> out.hit]
    /\ since' = [x \in Watched |-> [since[x] EXCEPT !.generated = @ + Batch]]
    /\ classified' = classified + Batch

----------------------------------------------------------------------------
(* Specifications: one per part of the class *)

\* Construction
CtorInit == InitCtor /\ PruneIdle /\ SerIdle /\ HookIdle /\ CacheIdle

CtorNext == Init__ /\ UNCHANGED <<pruneVars, serVars, hookVars, cacheVars>>

SpecCtor == CtorInit /\ [][CtorNext]_vars

\* Pruning
PruneInit == InitPrune /\ CtorIdle /\ SerIdle /\ HookIdle /\ CacheIdle

PruneNext == Prune /\ UNCHANGED <<ctorVars, serVars, hookVars, cacheVars>>

SpecPrune == PruneInit /\ [][PruneNext]_vars

\* Serialization
SerInit ==
    /\ self \in Records
    /\ serOut = NoSerCall
    /\ CtorIdle /\ PruneIdle /\ HookIdle /\ CacheIdle

SerNext ==
    \/ DictCall /\ UNCHANGED <<ctorVars, pruneVars, hookVars, since, classified, cacheCall>>
    \/ JsonCall /\ UNCHANGED <<ctorVars, pruneVars, hookVars, since, classified, cacheCall>>

SpecSer == SerInit /\ [][SerNext]_vars

\* Hook registration
HookInit == InitHooks /\ CtorIdle /\ PruneIdle /\ SerIdle /\ CacheIdle

HookNext == add_root_validator /\ UNCHANGED <<ctorVars, pruneVars, serVars, cacheVars>>

SpecHooks == HookInit /\ [][HookNext]_vars

\* Classification cache
CacheInit == InitCache /\ CtorIdle /\ PruneIdle /\ SerIdle /\ HookIdle

CacheNext ==
    \/ Classify /\ UNCHANGED <<ctorVars, pruneVars, serVars, hookVars>>
    \/ ClassifyGenerated /\ UNCHANGED <<ctorVars, pruneVars, serVars, hookVars>>

SpecCache == CacheInit /\ [][CacheNext]_vars

----------------------------------------------------------------------------
(* Properties of construction *)

\* The tags the call supplies: the values, other than None, under the two
\* spellings of the tag key
SuppliedTags(data) ==
    {Get(data, key) : key \in {k \in {"resource_type", "resourceType"} : HasKey(data, k)}}
        \ {Null}

\* C1: a supplied tag (under either spelling, or both) that differs from the
\* class's tag makes construction fail with a validation error at
\* resource_type that names the class's tag and the given value, and the base
\* validation engine is not invoked; otherwise the tag check raises nothing
\* and the data without the tag keys goes to the base engine.
C1_WrongTagRejected ==
    ctorOut.status /= "none" =>
        LET T == ResourceTypeDefault(ctorIn.cls)
            wrong == {t \in SuppliedTags(ctorIn.data) : t /= Scalar(T)}
        IN IF wrong /= {}
           THEN /\ ctorOut.status = "ValidationError"
                /\ ctorOut.loc = "resource_type"
                /\ ctorOut.expected = T
                /\ Scalar(ctorOut.given) \in wrong
                /\ ~ctorOut.baseCalled
           ELSE /\ ctorOut.status = "constructed"
                /\ ctorOut.baseCalled
                /\ ctorOut.baseData = Pop(Pop(ctorIn.data, "resource_type"), "resourceType")

----------------------------------------------------------------------------
(* Properties of pruning *)

RECURSIVE HasEmptyContainer(_)
\* x is, or holds at some depth, a list or dict without entries
HasEmptyContainer(x) ==
    /\ IsContainer(x)
    /\ \/ Len(x.items) = 0
       \/ \E i \in 1..Len(x.items) : HasEmptyContainer(x.items[i])

RECURSIVE Collapses(_)
\* The whole of x collapses: x is a list or dict all of whose entries collapse
\* (a None and a scalar do not)
Collapses(x) ==
    /\ IsContainer(x)
    /\ \A i \in 1..Len(x.items) : Collapses(x.items[i])

RECURSIVE LeavesOf(_)
RECURSIVE LeavesIn(_, _)
\* The None entries and scalars of x, in their order
LeavesOf(x) == IF IsContainer(x) THEN LeavesIn(x.items, 1) ELSE <<x>>

LeavesIn(xs, i) == IF i > Len(xs) THEN <<>> ELSE LeavesOf(xs[i]) \o LeavesIn(xs, i + 1)

\* C4: pruning is idempotent: the second application, made on the result of
\* the first, returns what the first returned.
C4_PruneIdempotent == Len(pruned) >= 2 => pruned[2] = pruned[1]

\* C5: the result of pruning is None exactly when the whole tree collapses,
\* and otherwise holds no empty list or dict at any depth, while every None
\* entry and every scalar of the tree is kept, in order.
C5_PruneLeavesNoEmpty ==
    Len(pruned) >= 1 =>
        /\ IsContainer(tree) => (pruned[1] = Null <=> Collapses(tree))
        /\ ~HasEmptyContainer(pruned[1])
        /\ LeavesOf(IF IsContainer(tree) /\ pruned[1] = Null THEN EmptyList ELSE pruned[1])
               = LeavesOf(tree)

----------------------------------------------------------------------------
(* Properties of serialization *)

IsEmptyContainer(x) == IsContainer(x) /\ Len(x.items) = 0

\* The key dict() uses for a field with this name and alias
KeyOf(by_alias, alias, key) == IF by_alias THEN alias ELSE key

DictDone == serOut.op = "dict" /\ serOut.status = "ok"

\* C2, as claimed: dict() never emits an element field as an empty list or
\* dict, with exclude_none True and with exclude_none False (where a None is
\* emitted as None).
C2_EmptyNeverEmitted ==
    DictDone =>
        \A i \in 1..Len(Elements(self.v)) :
            LET e == Elements(self.v)[i]
                key == KeyOf(serOut.by_alias, e.alias, e.key)
            IN /\ HasKey(serOut.data, key) => ~IsEmptyContainer(Get(serOut.data, key))
               /\ (~serOut.exclude_none /\ Get(self, e.key) = Null)
                      => (HasKey(serOut.data, key) /\ Get(serOut.data, key) = Null)

\* C2, amended: with exclude_none True no element field is emitted as None or
\* as an empty list or dict (a field that is None or an empty list is left
\* out); with exclude_none False every element field is emitted, a None as
\* None and an empty list as an empty list; an extension field is never
\* emitted as None or empty.
C2_EmptyOmittedOnlyWithExcludeNone ==
    DictDone =>
        \A i \in 1..Len(Elements(self.v)) :
            LET e == Elements(self.v)[i]
                key == KeyOf(serOut.by_alias, e.alias, e.key)
                extKey == KeyOf(serOut.by_alias, e.extAlias, e.extKey)
                raw == Get(self, e.key)
            IN /\ serOut.exclude_none =>
                      /\ HasKey(serOut.data, key) =>
                             /\ Get(serOut.data, key) /= Null
                             /\ ~IsEmptyContainer(Get(serOut.data, key))
                      /\ raw \in {Null, EmptyList} => ~HasKey(serOut.data, key)
               /\ ~serOut.exclude_none =>
                      /\ HasKey(serOut.data, key)
                      /\ raw \in {Null, EmptyList} => Get(serOut.data, key) = raw
               /\ (e.primitive /\ HasKey(serOut.data, extKey)) =>
                      /\ Get(serOut.data, extKey) /= Null
                      /\ ~IsEmptyContainer(Get(serOut.data, extKey))

\* An element that is an empty list was serialized with exclude_none False
\* and came out as an empty list, and another one that is None came out as None
C2_Witness ==
    /\ DictDone
    /\ ~serOut.exclude_none
    /\ Get(self, "given") = EmptyList
    /\ Get(serOut.data, "given") = EmptyList
    /\ Get(self, "family") = Null
    /\ HasKey(serOut.data, "family")

RECURSIVE HasKeyAtDepth(_, _)
\* x is, or holds at some depth, a dict with this key
HasKeyAtDepth(x, key) ==
    /\ IsContainer(x)
    /\ \/ x.k = "dict" /\ HasKey(x, key)
       \/ \E i \in 1..Len(x.items) : HasKeyAtDepth(x.items[i], key)

\* C3: what json(exclude_comments=True) hands to the encoder holds no
\* fhir_comments key at any depth, and no container without entries.
C3_JsonStripsComments ==
    (serOut.op = "json" /\ serOut.status = "ok" /\ serOut.exclude_comments) =>
        /\ ~HasKeyAtDepth(serOut.data, FHIR_COMMENTS_FIELD_NAME)
        /\ ~HasEmptyContainer(serOut.data)

----------------------------------------------------------------------------

\* The classes among the Records that descend from Resource
ResourceClasses == {"Patient"}

RECURSIVE TagKeyAsClaimed(_, _, _)
\* raw, a Record or a list of Records, and out, what dict() made of it: the
\* mapping of a Record of a resource class starts with resourceType and the
\* Record's tag, the mapping of any other Record has no resourceType key, and
\* so for the Records nested in them
TagKeyAsClaimed(raw, out, by_alias) ==
    CASE raw.k = "record" /\ out.k = "dict" ->
           /\ IF raw.v \in ResourceClasses
              THEN /\ Len(out.keys) >= 1
                   /\ out.keys[1] = "resourceType"
                   /\ out.items[1] = Get(raw, "resource_type")
              ELSE ~HasKey(out, "resourceType")
           /\ \A i \in 1..Len(Elements(raw.v)) :
                  LET e == Elements(raw.v)[i]
                      key == KeyOf(by_alias, e.alias, e.key)
                      extKey == KeyOf(by_alias, e.extAlias, e.extKey)
                  IN /\ HasKey(out, key) =>
                            TagKeyAsClaimed(Get(raw, e.key), Get(out, key), by_alias)
                     /\ (e.primitive /\ HasKey(out, extKey)) =>
                            TagKeyAsClaimed(Get(raw, e.extKey), Get(out, extKey), by_alias)
      [] raw.k = "list" /\ out.k = "list" ->
           /\ Len(raw.items) = Len(out.items)
           /\ \A i \in 1..Len(raw.items) :
                  TagKeyAsClaimed(raw.items[i], out.items[i], by_alias)
      [] raw.k = "record" -> out = Null
      [] OTHER -> TRUE

\* C6: for every flag combination the mapping of a Record whose class has
\* Resource among its ancestors starts with the key resourceType and the
\* instance's tag, the mapping of any other Record has no resourceType key,
\* and the same holds of every nested Record.
C6_TagKeyOnlyForResources ==
    DictDone => TagKeyAsClaimed(self, serOut.data, serOut.by_alias)

\* A resource that holds both an embedded element and a contained resource was
\* serialized: the tag key is there for the two resources and not for the name
C6_Witness ==
    /\ DictDone
    /\ self.v = "Patient"
    /\ Len(serOut.data.keys) >= 1
    /\ serOut.data.keys[1] = "resourceType"
    /\ Get(serOut.data, "name").k = "list"
    /\ \E i \in 1..Len(Get(serOut.data, "name").items) :
           LET n == Get(serOut.data, "name").items[i]
           IN n.k = "dict" /\ Len(n.keys) >= 1 /\ ~HasKey(n, "resourceType")
    /\ Get(serOut.data, "contained").k = "list"
    /\ \E i \in 1..Len(Get(serOut.data, "contained").items) :
           LET r == Get(serOut.data, "contained").items[i]
           IN r.k = "dict" /\ Len(r.keys) >= 1 /\ r.keys[1] = "resourceType"

----------------------------------------------------------------------------

RECURSIVE ElementKeyOrder(_, _, _)
\* The keys of the elements of class c from the i-th on, each primitive one
\* followed by the key of its extension field
ElementKeyOrder(c, i, by_alias) ==
    IF i > Len(Elements(c)) THEN <<>>
    ELSE LET e == Elements(c)[i]
         IN <<KeyOf(by_alias, e.alias, e.key)>>
                \o (IF e.primitive THEN <<KeyOf(by_alias, e.extAlias, e.extKey)>> ELSE <<>>)
                \o ElementKeyOrder(c, i + 1, by_alias)

\* The order the Record type fixes for the keys of the mapping
KeyOrder(c, by_alias) ==
    <<"resourceType">> \o ElementKeyOrder(c, 1, by_alias) \o <<FHIR_COMMENTS_FIELD_NAME>>

PositionIn(order, key) == CHOOSE i \in 1..Len(order) : order[i] = key

\* keys holds keys of order only, each once, in the order they have there
InOrder(keys, order) ==
    /\ \A i \in 1..Len(keys) : \E j \in 1..Len(order) : order[j] = keys[i]
    /\ \A i, j \in 1..Len(keys) :
           i < j => PositionIn(order, keys[i]) < PositionIn(order, keys[j])

\* What is left of an extension after conversion has entries: its id, or its
\* comments unless excluded, or its None fields when None is not excluded
ExtensionStaysNonEmpty(ext, exclude_none, exclude_comments) ==
    \/ Get(ext, "id") /= Null
    \/ ~exclude_none
    \/ Get(ext, FHIR_COMMENTS_FIELD_NAME) /= Null /\ ~exclude_comments

\* C9: the keys of the mapping come in the order of the Record type: the
\* elements in canonical order, the extension field of a primitive element
\* right after that element's place, the comments last; an extension field is
\* emitted exactly when it is present and not empty after conversion, whether
\* or not the primitive value is emitted; the comments are emitted exactly
\* when present and not excluded.
C9_KeyOrderFixed ==
    DictDone =>
        /\ InOrder(serOut.data.keys, KeyOrder(self.v, serOut.by_alias))
        /\ \A i \in 1..Len(Elements(self.v)) :
               LET e == Elements(self.v)[i]
                   ext == Get(self, e.extKey)
               IN e.primitive =>
                      (HasKey(serOut.data, KeyOf(serOut.by_alias, e.extAlias, e.extKey))
                           <=> /\ ext /= Null
                               /\ ExtensionStaysNonEmpty(ext, serOut.exclude_none,
                                                         serOut.exclude_comments))
        /\ HasKey(serOut.data, FHIR_COMMENTS_FIELD_NAME)
               <=> (Get(self, FHIR_COMMENTS_FIELD_NAME) /= Null /\ ~serOut.exclude_comments)
        /\ HasKey(serOut.data, FHIR_COMMENTS_FIELD_NAME) =>
               /\ serOut.data.keys[Len(serOut.data.keys)] = FHIR_COMMENTS_FIELD_NAME
               /\ Get(serOut.data, FHIR_COMMENTS_FIELD_NAME)
                      = Get(self, FHIR_COMMENTS_FIELD_NAME)

\* A name without family but with its extension, with given names and
\* comments, was serialized: the extension is emitted without the primitive
\* value, before the next element, and the comments are last
C9_Witness ==
    /\ DictDone
    /\ serOut.by_alias /\ serOut.exclude_none
    /\ self.v = "HumanName"
    /\ Get(self, "family") = Null
    /\ serOut.data.keys = <<"_family", "given", "fhir_comments">>

----------------------------------------------------------------------------

\* The last two calls are the same operation with the same flags
SameCall(a, b) ==
    /\ a.op = b.op
    /\ a.by_alias = b.by_alias
    /\ a.exclude_none = b.exclude_none
    /\ a.exclude_comments = b.exclude_comments
    /\ a.exclude = b.exclude

\* C11: a call of dict() or of json(), json(exclude_comments=True) with its
\* pruning pass included, leaves every field value of the Record and of its
\* nested Records unchanged, and a call that repeats the call before it with
\* the same flags produces equal output.
C11_SerializationKeepsRecord ==
    [][/\ self' = self
       /\ SameCall(serOut, serOut') => serOut'.data = serOut.data]_vars

\* json(exclude_comments=True) was called on a resource that holds comments
\* and a contained resource whose name has a list of comments: the lists the
\* pruning went through are those of the Records
C11_Witness ==
    /\ serOut.op = "json" /\ serOut.status = "ok" /\ serOut.exclude_comments
    /\ self.v = "Patient"
    /\ Get(self, "contained") = List(<<ContainedPatient>>)
    /\ Get(serOut.data, "contained").k = "list"
    /\ Len(Get(serOut.data, "contained").items) = 1
    /\ LET names == Get(Get(serOut.data, "contained").items[1], "name")
       IN /\ names.k = "list"
          /\ Len(names.items) = 1
          /\ Get(names.items[1], FHIR_COMMENTS_FIELD_NAME)
                 = List(<<Scalar(""), Scalar("c")>>)

----------------------------------------------------------------------------
(* Properties of hook registration *)

\* The names the class and its ancestors define
NamesInAncestry(c) == UNION {DefinedNames(Mro(c)[i]) : i \in 1..Len(Mro(c))}

\* The reasons for which a registration of f is to fail, bound being the
\* names registered so far
MustFail(f, bound) ==
    \/ f.name \in FieldNames(HookClass)
    \/ f.name \in NamesInAncestry(HookClass) \cup bound
    \/ Len(f.params) /= 2
    \/ f.params[1] /= "cls"

\* C7: a call with a function whose name is a field's or an existing
\* attribute's, or that does not take exactly two parameters, the first named
\* cls, raises a configuration error; and every call that raises leaves both
\* hook lists and the class attributes as they were, whatever was registered
\* before.
C7_FailedCallChangesNothing ==
    [][/\ MustFail(hookCall'.func, attrs) => hookCall'.result = "ConfigError"
       /\ hookCall'.result = "ConfigError" =>
              (preV' = preV /\ postV' = postV /\ attrs' = attrs)]_vars

\* A function with a wrong signature was refused after two registrations
C7_Witness ==
    /\ hookCall.result = "ConfigError"
    /\ hookCall.func.name = "one_param"
    /\ attrs = {"check_a", "check_b"}
    /\ Len(preV) + Len(postV) = 4

\* new is old with x put in at place p (counted from 1), the others in order
PutAt(old, new, x, p) ==
    /\ Len(new) = Len(old) + 1
    /\ p \in 1..Len(new)
    /\ new[p] = x
    /\ RemoveAt(new, p) = old

\* The hook of the last call, as its list holds it
HookEntry(call) ==
    IF call.pre THEN call.func.name
    ELSE [skip_on_failure |-> call.skip_on_failure, func |-> call.func.name]

\* One hook list changed, by x put in at place p; the name was bound
OneListChanged(call, prePlace, postPlace) ==
    /\ IF call.pre
       THEN postV' = postV /\ PutAt(preV, preV', HookEntry(call), prePlace)
       ELSE preV' = preV /\ PutAt(postV, postV', HookEntry(call), postPlace)
    /\ call.func.name \notin attrs
    /\ attrs' = attrs \cup {call.func.name}

\* The place (counted from 1) of the new hook in a list that held n, read
\* as position index of the new list, from its end when index is negative
PlaceClaimed(n, index) ==
    IF index = -1 THEN n + 1 ELSE IF index >= 0 THEN index + 1 ELSE n + 1 + index + 1

\* C8, as claimed: a successful call changes exactly one hook list, the new
\* hook being the last element with the default index and at position index
\* (from the start, or from the end when negative) with any other, and binds
\* the name, so that a second registration of the name fails.
C8_InsertedAtIndex ==
    [][/\ hookCall'.result = "ok" =>
              OneListChanged(hookCall', PlaceClaimed(Len(preV), hookCall'.index),
                             PlaceClaimed(Len(postV), hookCall'.index))
       /\ hookCall'.func.name \in attrs => hookCall'.result = "ConfigError"]_vars

\* The place (counted from 1) where list.insert(index, x) puts x in a list of n
PlaceOfInsert(n, index) ==
    IF index = -1 THEN n + 1
    ELSE IF index >= 0 THEN (IF index > n THEN n + 1 ELSE index + 1)
    ELSE IF n + index < 0 THEN 1 ELSE n + index + 1

\* C8, amended: as claimed, but the position follows list.insert: an index
\* from 0 to the length of the list is the position of the new hook, a larger
\* one puts it last, and a negative one other than -1 puts it before the
\* hook that is -index from the end, or first when there are fewer.
C8_InsertedAsListInsert ==
    [][/\ hookCall'.result = "ok" =>
              OneListChanged(hookCall', PlaceOfInsert(Len(preV), hookCall'.index),
                             PlaceOfInsert(Len(postV), hookCall'.index))
       /\ hookCall'.func.name \in attrs => hookCall'.result = "ConfigError"]_vars

\* A post-validator was registered with an index beyond the end of a list of
\* two, and is its last element
C8_Witness ==
    /\ hookCall.result = "ok"
    /\ ~hookCall.pre
    /\ hookCall.index = 5
    /\ Len(postV) = 3
    /\ postV[3] = HookEntry(hookCall)

----------------------------------------------------------------------------
(* Properties of the classification cache *)

\* C10, as claimed: once a class was classified its entry stays in the cache,
\* however many other classes are classified afterwards, and every call
\* returns what the walk of the ancestry returns.
C10_EntryNeverEvicted ==
    /\ \A w \in Watched : since[w].called => InCache(cache, w)
    /\ cacheCall.op /= "none" => cacheCall.result = HasResourceBaseWalk(cacheCall.key)

\* C10, amended: the cache holds the maxsize most recently used classes: the
\* entry of a class stays as long as fewer than maxsize other classes were
\* classified since its last call, and is evicted by the maxsize-th; every
\* call, from the cache or not, returns what the walk of the ancestry returns.
C10_EntryKeptWhileRecent ==
    /\ \A w \in Watched :
           since[w].called => (InCache(cache, w) <=> OthersSince(w) < maxsize)
    /\ Len(cache) <= maxsize
    /\ cacheCall.op /= "none" => cacheCall.result = HasResourceBaseWalk(cacheCall.key)

\* A class was classified again from the cache while the other watched class,
\* classified before maxsize others, is no longer in the cache
C10_Witness ==
    /\ cacheCall.op /= "none"
    /\ cacheCall.hit
    /\ cacheCall.key = ClassKey("HumanName")
    /\ since[ClassKey("Patient")].called
    /\ OthersSince(ClassKey("Patient")) >= maxsize
    /\ ~InCache(cache, ClassKey("Patient"))

====
